---- MODULE Spec2Model ----
(***************************************************************************)
(* Model of contrib/win32/win32compat/cng_digest.c: the digest registry    *)
(* (digests[], ssh_digest_by_alg, ssh_digest_alg_by_name, ...) and the     *)
(* digest context engine (ssh_digest_start/update/final/copy_state/free,   *)
(* ssh_digest_memory) over the Windows CNG hash provider.                  *)
(*                                                                         *)
(* The provider is modelled as a table of open algorithm handles and open  *)
(* hash objects.  Each provider call may fail; which call of an operation  *)
(* fails is an input of the operation.                                     *)
(*                                                                         *)
(* Specifications: Spec runs the streaming operations (start, update,      *)
(* final, copy_state, free) on the contexts the caller holds;              *)
(* SpecLifecycle is Spec without copy_state; SpecOneshot runs              *)
(* ssh_digest_memory, which works on a context of its own and touches no   *)
(* context of the caller, among contexts that are started and freed;       *)
(* SpecRegistry runs the lookups, which read the constant table only;      *)
(* SpecResolve runs the lookups by id and the start that depends on them,  *)
(* for every id; SpecErrors runs the operations that can fail both on      *)
(* their arguments and on the provider; SpecThreads runs two caller        *)
(* threads that each stream a message on a context of their own, in any    *)
(* interleaving, and SpecStream lets each thread also pass its message     *)
(* whole to ssh_digest_memory.                                             *)
(***************************************************************************)
EXTENDS Integers, Sequences, FiniteSets, TLC

(* ------------------------------ bounds --------------------------------- *)

\* number of context-sized blocks malloc can hand out
MaxCtx == 2

\* number of handles the provider can have open at once
MaxHandles == 5

\* longest byte sequence accumulated in one hash object
MaxData == 2

\* number of copy_state calls the caller makes
MaxCopies == 1

(* ------------------------- program constants --------------------------- *)

SSH_DIGEST_MD5 == 0

SSH_DIGEST_RIPEMD160 == 1

SSH_DIGEST_SHA1 == 2

SSH_DIGEST_SHA256 == 3

SSH_DIGEST_SHA384 == 4

SSH_DIGEST_SHA512 == 5

SSH_DIGEST_MAX == 6

SSH_ERR_INTERNAL_ERROR == -1

SSH_ERR_INVALID_ARGUMENT == -10

SSH_ERR_LIBCRYPTO_ERROR == -22

\* stands for the return value of a call that faults and never returns
NoReturn == -999

\* the null pointer (context pointers are 1..MaxCtx, handles are 1..MaxHandles)
NULL == 0

\* a null string pointer (const char * / const wchar_t *)
NULLSTR == <<-1>>

\* (size_t)-1: the one size above UINT_MAX that is used as an input
SIZE_MAX == -1

\* dlen > UINT_MAX
GtUintMax(n) == n = SIZE_MAX

\* a < b for a size a and a digest length b
SizeLt(a, b) == a # SIZE_MAX /\ a < b

(* ------------------------------ registry ------------------------------- *)

\* C strings are sequences of character codes
S_MD5 == <<77, 68, 53>>

S_RIPEMD160 == <<82, 73, 80, 69, 77, 68, 49, 54, 48>>

S_SHA1 == <<83, 72, 65, 49>>

S_SHA256 == <<83, 72, 65, 50, 53, 54>>

S_SHA384 == <<83, 72, 65, 51, 56, 52>>

S_SHA512 == <<83, 72, 65, 53, 49, 50>>

\* "sha256"
S_sha256 == <<115, 104, 97, 50, 53, 54>>

\* "Sha256"
S_Sha256 == <<83, 104, 97, 50, 53, 54>>

\* "SHA3"
S_SHA3 == <<83, 72, 65, 51>>

\* "SHA2567"
S_SHA2567 == <<83, 72, 65, 50, 53, 54, 55>>

\* digests[]: element i of the C array is digests[i + 1]
digests == <<
    [id |-> SSH_DIGEST_MD5,       name |-> S_MD5,       digest_len |-> 16, cng_alg_name |-> S_MD5],
    [id |-> SSH_DIGEST_RIPEMD160, name |-> S_RIPEMD160, digest_len |-> 20, cng_alg_name |-> NULLSTR],
    [id |-> SSH_DIGEST_SHA1,      name |-> S_SHA1,      digest_len |-> 20, cng_alg_name |-> S_SHA1],
    [id |-> SSH_DIGEST_SHA256,    name |-> S_SHA256,    digest_len |-> 32, cng_alg_name |-> S_SHA256],
    [id |-> SSH_DIGEST_SHA384,    name |-> S_SHA384,    digest_len |-> 48, cng_alg_name |-> S_SHA384],
    [id |-> SSH_DIGEST_SHA512,    name |-> S_SHA512,    digest_len |-> 64, cng_alg_name |-> S_SHA512],
    [id |-> -1,                   name |-> NULLSTR,     digest_len |-> 0,  cng_alg_name |-> NULLSTR] >>

\* the null descriptor pointer
NoDigest == [id |-> -2, name |-> NULLSTR, digest_len |-> 0, cng_alg_name |-> NULLSTR]

\* ssh_digest_by_alg without the check that the entry names a provider algorithm
ssh_digest_by_alg_NoProviderCheck(alg) ==
    IF alg < 0 \/ alg >= SSH_DIGEST_MAX THEN NoDigest
    ELSE IF digests[alg + 1].id # alg THEN NoDigest
    ELSE digests[alg + 1]

ssh_digest_by_alg(alg) ==
    IF alg < 0 \/ alg >= SSH_DIGEST_MAX THEN NoDigest
    ELSE IF digests[alg + 1].id # alg THEN NoDigest
    ELSE IF digests[alg + 1].cng_alg_name = NULLSTR THEN NoDigest
    ELSE digests[alg + 1]

\* tolower() on a character code
ToLower(c) == IF c >= 65 /\ c <= 90 THEN c + 32 ELSE c

\* a comparison that distinguishes case, strcmp(a, b) == 0
StricmpEq_CaseSensitive(a, b) ==
    /\ Len(a) = Len(b)
    /\ \A i \in 1..Len(a) : a[i] = b[i]

\* _stricmp(a, b) == 0
StricmpEq(a, b) ==
    /\ Len(a) = Len(b)
    /\ \A i \in 1..Len(a) : ToLower(a[i]) = ToLower(b[i])

RECURSIVE AlgByNameFrom(_, _)
\* the loop of ssh_digest_alg_by_name, from index alg on
AlgByNameFrom(name, alg) ==
    IF digests[alg + 1].id = -1 THEN -1
    ELSE IF StricmpEq(name, digests[alg + 1].name) THEN digests[alg + 1].id
    ELSE AlgByNameFrom(name, alg + 1)

ssh_digest_alg_by_name(name) == AlgByNameFrom(name, 0)

ssh_digest_alg_name(alg) ==
    LET digest == ssh_digest_by_alg(alg)
    IN IF digest = NoDigest THEN NULLSTR ELSE digest.name

ssh_digest_bytes(alg) ==
    LET digest == ssh_digest_by_alg(alg)
    IN IF digest = NoDigest THEN 0 ELSE digest.digest_len

(* ------------------------------ provider ------------------------------- *)

\* Remove key h from function f.
Drop(f, h) == [x \in (DOMAIN f) \ {h} |-> f[x]]

\* the provider with nothing open
CngInit == [algs |-> <<>>, hashes |-> <<>>]

Handles == 1..MaxHandles

\* the handles that are not in use
FreeHandles(p) == Handles \ (DOMAIN p.algs \cup DOMAIN p.hashes)

\* the handle the provider gives out next (handles are reused once released)
NewHandle(p) == CHOOSE h \in FreeHandles(p) : \A g \in FreeHandles(p) : h <= g

\* Opens an algorithm handle for `name`; `ok` says whether the provider succeeds.
BCryptOpenAlgorithmProvider(p, name, ok) ==
    IF ok /\ name # NULLSTR /\ FreeHandles(p) # {}
    THEN [ok |-> TRUE, h |-> NewHandle(p),
          cng |-> [p EXCEPT !.algs = @ @@ (NewHandle(p) :> name)]]
    ELSE [ok |-> FALSE, h |-> NULL, cng |-> p]

\* Creates an empty reusable hash object under algorithm handle ah.
\* parent_open: the algorithm handle it was created under has not been closed.
BCryptCreateHash(p, ah, ok) ==
    IF ok /\ ah \in DOMAIN p.algs /\ FreeHandles(p) # {}
    THEN [ok |-> TRUE, h |-> NewHandle(p),
          cng |-> [p EXCEPT !.hashes = @ @@ (NewHandle(p) :>
                      [name |-> p.algs[ah], alg_handle |-> ah, parent_open |-> TRUE, data |-> <<>>])]]
    ELSE [ok |-> FALSE, h |-> NULL, cng |-> p]

\* Creates a new hash object holding a copy of the state of hash object hh.
BCryptDuplicateHash(p, hh, ok) ==
    IF ok /\ hh \in DOMAIN p.hashes /\ FreeHandles(p) # {}
    THEN [ok |-> TRUE, h |-> NewHandle(p),
          cng |-> [p EXCEPT !.hashes = @ @@ (NewHandle(p) :> p.hashes[hh])]]
    ELSE [ok |-> FALSE, h |-> NULL, cng |-> p]

\* Appends m to the state of hash object hh.
BCryptHashData(p, hh, m, ok) ==
    IF ok /\ hh \in DOMAIN p.hashes
    THEN [ok |-> TRUE, cng |-> [p EXCEPT !.hashes[hh].data = @ \o m]]
    ELSE [ok |-> FALSE, cng |-> p]

\* the digest the provider computes for algorithm `name` over `data`
ProviderDigest(name, data) == <<name, data>>

\* Writes the digest (n bytes) and resets the reusable hash object hh.
BCryptFinishHash(p, hh, n, ok) ==
    IF ok /\ hh \in DOMAIN p.hashes
    THEN [ok |-> TRUE, written |-> n,
          md |-> ProviderDigest(p.hashes[hh].name, p.hashes[hh].data),
          cng |-> [p EXCEPT !.hashes[hh].data = <<>>]]
    ELSE [ok |-> FALSE, written |-> 0, md |-> <<>>, cng |-> p]

\* Closes algorithm handle ah; the hash objects made under it lose their parent.
BCryptCloseAlgorithmProvider(p, ah) ==
    [algs |-> Drop(p.algs, ah),
     hashes |-> [h \in DOMAIN p.hashes |->
                    IF p.hashes[h].alg_handle = ah
                    THEN [p.hashes[h] EXCEPT !.parent_open = FALSE]
                    ELSE p.hashes[h]]]

BCryptDestroyHash(p, hh) == [p EXCEPT !.hashes = Drop(@, hh)]

\* one entry of the trace of provider calls made by an operation
Call(f, ok) == [f |-> f, ok |-> ok]

(* --------------------------- context engine ---------------------------- *)

CtxPtrs == 1..MaxCtx

\* a block of memory that is not allocated
FreeBlock == [allocated |-> FALSE, alg |-> 0, cng_alg_handle |-> NULL, hash_handle |-> NULL]

\* Operations work on a record w: heap (the context blocks), cng (the provider),
\* calls (provider calls made so far by the running operation), crashed,
\* nullderef (the running operation has read through a null context pointer).
World(h, p) == [heap |-> h, cng |-> p, calls |-> <<>>, crashed |-> FALSE, nullderef |-> FALSE]

\* w after one more provider call f with outcome r
Called(w, f, r) == [w EXCEPT !.cng = r.cng, !.calls = Append(@, Call(f, r.ok))]

\* malloc(sizeof(struct ssh_digest_ctx)): NULL when told to fail or out of blocks
Malloc(w, ok) ==
    LET free == {c \in CtxPtrs : ~w.heap[c].allocated}
    IN IF ok /\ free # {} THEN CHOOSE c \in free : \A d \in free : c <= d ELSE NULL

\* ssh_digest_start without the close of the algorithm handle when the hash
\* object cannot be created
ssh_digest_start_NoClose(w, alg, fail) ==
    LET digest == ssh_digest_by_alg(alg)
        ret == IF digest = NoDigest THEN NULL ELSE Malloc(w, fail # "malloc")
    IN IF digest = NoDigest \/ ret = NULL THEN [w |-> w, ret |-> NULL]
       ELSE LET o == BCryptOpenAlgorithmProvider(w.cng, digest.cng_alg_name, fail # "open")
                w1 == Called(w, "BCryptOpenAlgorithmProvider", o)
            IN IF ~o.ok THEN [w |-> w1, ret |-> NULL]
               ELSE LET c == BCryptCreateHash(w1.cng, o.h, fail # "create")
                        w2 == Called(w1, "BCryptCreateHash", c)
                    IN IF ~c.ok
                       THEN [w |-> w2, ret |-> NULL]
                       ELSE [w |-> [w2 EXCEPT !.heap[ret] =
                                       [allocated |-> TRUE, alg |-> alg,
                                        cng_alg_handle |-> o.h, hash_handle |-> c.h]],
                             ret |-> ret]

\* ssh_digest_start without the assignment of ret->alg, on a zeroed block
ssh_digest_start_NoAlg(w, alg, fail) ==
    LET digest == ssh_digest_by_alg(alg)
        ret == IF digest = NoDigest THEN NULL ELSE Malloc(w, fail # "malloc")
    IN IF digest = NoDigest \/ ret = NULL THEN [w |-> w, ret |-> NULL]
       ELSE LET o == BCryptOpenAlgorithmProvider(w.cng, digest.cng_alg_name, fail # "open")
                w1 == Called(w, "BCryptOpenAlgorithmProvider", o)
            IN IF ~o.ok THEN [w |-> w1, ret |-> NULL]
               ELSE LET c == BCryptCreateHash(w1.cng, o.h, fail # "create")
                        w2 == Called(w1, "BCryptCreateHash", c)
                    IN IF ~c.ok
                       THEN [w |-> [w2 EXCEPT !.cng = BCryptCloseAlgorithmProvider(@, o.h)],
                             ret |-> NULL]
                       ELSE [w |-> [w2 EXCEPT !.heap[ret] =
                                       [allocated |-> TRUE, alg |-> 0,
                                        cng_alg_handle |-> o.h, hash_handle |-> c.h]],
                             ret |-> ret]

\* ssh_digest_start handing out one static context instead of a block of its own
ssh_digest_start_Static(w, alg, fail) ==
    LET digest == ssh_digest_by_alg(alg)
        ret == IF digest = NoDigest \/ fail = "malloc" THEN NULL ELSE 1
    IN IF digest = NoDigest \/ ret = NULL THEN [w |-> w, ret |-> NULL]
       ELSE LET o == BCryptOpenAlgorithmProvider(w.cng, digest.cng_alg_name, fail # "open")
                w1 == Called(w, "BCryptOpenAlgorithmProvider", o)
            IN IF ~o.ok THEN [w |-> w1, ret |-> NULL]
               ELSE LET c == BCryptCreateHash(w1.cng, o.h, fail # "create")
                        w2 == Called(w1, "BCryptCreateHash", c)
                    IN IF ~c.ok
                       THEN [w |-> [w2 EXCEPT !.cng = BCryptCloseAlgorithmProvider(@, o.h)],
                             ret |-> NULL]
                       ELSE [w |-> [w2 EXCEPT !.heap[ret] =
                                       [allocated |-> TRUE, alg |-> alg,
                                        cng_alg_handle |-> o.h, hash_handle |-> c.h]],
                             ret |-> ret]

ssh_digest_start(w, alg, fail) ==
    LET digest == ssh_digest_by_alg(alg)
        ret == IF digest = NoDigest THEN NULL ELSE Malloc(w, fail # "malloc")
    IN IF digest = NoDigest \/ ret = NULL THEN [w |-> w, ret |-> NULL]
       ELSE LET o == BCryptOpenAlgorithmProvider(w.cng, digest.cng_alg_name, fail # "open")
                w1 == Called(w, "BCryptOpenAlgorithmProvider", o)
            IN IF ~o.ok THEN [w |-> w1, ret |-> NULL]
               ELSE LET c == BCryptCreateHash(w1.cng, o.h, fail # "create")
                        w2 == Called(w1, "BCryptCreateHash", c)
                    IN IF ~c.ok
                       THEN [w |-> [w2 EXCEPT !.cng = BCryptCloseAlgorithmProvider(@, o.h)],
                             ret |-> NULL]
                       ELSE [w |-> [w2 EXCEPT !.heap[ret] =
                                       [allocated |-> TRUE, alg |-> alg,
                                        cng_alg_handle |-> o.h, hash_handle |-> c.h]],
                             ret |-> ret]

\* ssh_digest_copy_state without the comparison of the algorithms
ssh_digest_copy_state_NoAlgCheck(w, from, to, fail) ==
    LET d == BCryptDuplicateHash(w.cng, w.heap[from].hash_handle, fail # "duplicate")
        w1 == Called(w, "BCryptDuplicateHash", d)
    IN IF ~d.ok THEN [w |-> w1, ret |-> SSH_ERR_LIBCRYPTO_ERROR]
       ELSE [w |-> [w1 EXCEPT !.heap[to].hash_handle = d.h], ret |-> 0]

\* ssh_digest_copy_state storing the source's hash handle instead of a duplicate
ssh_digest_copy_state_Alias(w, from, to, fail) ==
    IF w.heap[from].alg # w.heap[to].alg THEN [w |-> w, ret |-> SSH_ERR_INVALID_ARGUMENT]
    ELSE [w |-> [w EXCEPT !.heap[to].hash_handle = w.heap[from].hash_handle], ret |-> 0]

\* ssh_digest_copy_state storing what BCryptDuplicateHash left in to->hash_handle
\* when the duplication failed
ssh_digest_copy_state_Partial(w, from, to, fail) ==
    IF w.heap[from].alg # w.heap[to].alg THEN [w |-> w, ret |-> SSH_ERR_INVALID_ARGUMENT]
    ELSE LET d == BCryptDuplicateHash(w.cng, w.heap[from].hash_handle, fail # "duplicate")
             w1 == Called(w, "BCryptDuplicateHash", d)
         IN IF ~d.ok THEN [w |-> [w1 EXCEPT !.heap[to].hash_handle = NULL],
                           ret |-> SSH_ERR_LIBCRYPTO_ERROR]
            ELSE [w |-> [w1 EXCEPT !.heap[to].hash_handle = d.h], ret |-> 0]

ssh_digest_copy_state(w, from, to, fail) ==
    IF w.heap[from].alg # w.heap[to].alg THEN [w |-> w, ret |-> SSH_ERR_INVALID_ARGUMENT]
    ELSE LET d == BCryptDuplicateHash(w.cng, w.heap[from].hash_handle, fail # "duplicate")
             w1 == Called(w, "BCryptDuplicateHash", d)
         IN IF ~d.ok THEN [w |-> w1, ret |-> SSH_ERR_LIBCRYPTO_ERROR]
            ELSE [w |-> [w1 EXCEPT !.heap[to].hash_handle = d.h], ret |-> 0]

\* ssh_digest_update hashing m into a fresh state instead of the accumulated one
ssh_digest_update_Restart(w, ctx, m, fail, ub) ==
    IF ctx = NULL
    THEN IF ub = "crash"
         THEN [w |-> [w EXCEPT !.crashed = TRUE, !.nullderef = TRUE], ret |-> NoReturn]
         ELSE [w |-> [Called(w, "BCryptHashData", BCryptHashData(w.cng, NULL, m, fail # "update"))
                         EXCEPT !.nullderef = TRUE],
               ret |-> SSH_ERR_LIBCRYPTO_ERROR]
    ELSE LET u == BCryptHashData(w.cng, w.heap[ctx].hash_handle, m, fail # "update")
             w1 == Called(w, "BCryptHashData", u)
         IN IF ~u.ok THEN [w |-> w1, ret |-> SSH_ERR_LIBCRYPTO_ERROR]
            ELSE [w |-> [w1 EXCEPT !.cng.hashes[w.heap[ctx].hash_handle].data = m], ret |-> 0]

\* ctx->hash_handle with ctx == NULL is undefined: the read faults (ub = "crash")
\* or yields a value that is no handle (ub = "garbage").
ssh_digest_update(w, ctx, m, fail, ub) ==
    IF ctx = NULL
    THEN IF ub = "crash"
         THEN [w |-> [w EXCEPT !.crashed = TRUE, !.nullderef = TRUE], ret |-> NoReturn]
         ELSE [w |-> [Called(w, "BCryptHashData", BCryptHashData(w.cng, NULL, m, fail # "update"))
                         EXCEPT !.nullderef = TRUE],
               ret |-> SSH_ERR_LIBCRYPTO_ERROR]
    ELSE LET u == BCryptHashData(w.cng, w.heap[ctx].hash_handle, m, fail # "update")
             w1 == Called(w, "BCryptHashData", u)
         IN IF ~u.ok THEN [w |-> w1, ret |-> SSH_ERR_LIBCRYPTO_ERROR]
            ELSE [w |-> w1, ret |-> 0]

\* ssh_digest_final without the check against truncation
ssh_digest_final_NoLenCheck(w, ctx, dlen, fail) ==
    LET digest == ssh_digest_by_alg(w.heap[ctx].alg)
    IN IF GtUintMax(dlen)
       THEN [w |-> w, ret |-> SSH_ERR_INVALID_ARGUMENT, written |-> 0, md |-> <<>>]
       ELSE LET f == BCryptFinishHash(w.cng, w.heap[ctx].hash_handle, digest.digest_len, fail # "final")
                w1 == Called(w, "BCryptFinishHash", f)
            IN IF ~f.ok
               THEN [w |-> w1, ret |-> SSH_ERR_LIBCRYPTO_ERROR, written |-> 0, md |-> <<>>]
               ELSE [w |-> w1, ret |-> 0, written |-> f.written, md |-> f.md]

\* ssh_digest_final asking the provider for dlen bytes, the capacity of the buffer
ssh_digest_final_WriteCapacity(w, ctx, dlen, fail) ==
    LET digest == ssh_digest_by_alg(w.heap[ctx].alg)
    IN IF GtUintMax(dlen)
       THEN [w |-> w, ret |-> SSH_ERR_INVALID_ARGUMENT, written |-> 0, md |-> <<>>]
       ELSE IF SizeLt(dlen, digest.digest_len)
       THEN [w |-> w, ret |-> SSH_ERR_INVALID_ARGUMENT, written |-> 0, md |-> <<>>]
       ELSE LET f == BCryptFinishHash(w.cng, w.heap[ctx].hash_handle, dlen, fail # "final")
                w1 == Called(w, "BCryptFinishHash", f)
            IN IF ~f.ok
               THEN [w |-> w1, ret |-> SSH_ERR_LIBCRYPTO_ERROR, written |-> 0, md |-> <<>>]
               ELSE [w |-> w1, ret |-> 0, written |-> f.written, md |-> f.md]

\* written: number of bytes stored through d; md: their value
ssh_digest_final(w, ctx, dlen, fail) ==
    LET digest == ssh_digest_by_alg(w.heap[ctx].alg)
    IN IF GtUintMax(dlen)
       THEN [w |-> w, ret |-> SSH_ERR_INVALID_ARGUMENT, written |-> 0, md |-> <<>>]
       ELSE IF SizeLt(dlen, digest.digest_len)
       THEN [w |-> w, ret |-> SSH_ERR_INVALID_ARGUMENT, written |-> 0, md |-> <<>>]
       ELSE LET f == BCryptFinishHash(w.cng, w.heap[ctx].hash_handle, digest.digest_len, fail # "final")
                w1 == Called(w, "BCryptFinishHash", f)
            IN IF ~f.ok
               THEN [w |-> w1, ret |-> SSH_ERR_LIBCRYPTO_ERROR, written |-> 0, md |-> <<>>]
               ELSE [w |-> w1, ret |-> 0, written |-> f.written, md |-> f.md]

\* ssh_digest_free without the destruction of the hash object
ssh_digest_free_NoDestroy(w, ctx) ==
    IF ctx # NULL
    THEN [w EXCEPT !.cng = BCryptCloseAlgorithmProvider(@, w.heap[ctx].cng_alg_handle),
                   !.heap[ctx] = FreeBlock]
    ELSE w

ssh_digest_free(w, ctx) ==
    IF ctx # NULL
    THEN [w EXCEPT !.cng = BCryptDestroyHash(
                               BCryptCloseAlgorithmProvider(@, w.heap[ctx].cng_alg_handle),
                               w.heap[ctx].hash_handle),
                   !.heap[ctx] = FreeBlock]
    ELSE w

\* what ssh_digest_memory returns: ret, the output buffer (written, md) and,
\* for the record, the context it started
MemoryResult(w, ret, written, md, ctx) ==
    [w |-> w, ret |-> ret, out |-> [written |-> written, md |-> md], ctx |-> ctx]

\* ssh_digest_memory from the return of ssh_digest_final (f) on
MemoryAfterFinal(ctx, f) ==
    IF f.ret # 0 THEN MemoryResult(f.w, -1, f.written, f.md, ctx)
    ELSE MemoryResult(ssh_digest_free(f.w, ctx), 0, f.written, f.md, ctx)

\* ssh_digest_memory from the return of ssh_digest_update (u) on
MemoryAfterUpdate(ctx, u, dlen, fail) ==
    IF u.w.crashed THEN MemoryResult(u.w, NoReturn, 0, <<>>, ctx)
    ELSE IF u.ret # 0 THEN MemoryResult(u.w, -1, 0, <<>>, ctx)
    ELSE MemoryAfterFinal(ctx, ssh_digest_final(u.w, ctx, dlen, fail))

\* ssh_digest_memory after its initialisers: digest and s, the return of ssh_digest_start
MemoryAfterStart(digest, s, m, dlen, fail, ub) ==
    IF digest = NoDigest THEN MemoryResult(s.w, SSH_ERR_INVALID_ARGUMENT, 0, <<>>, s.ret)
    ELSE IF GtUintMax(dlen) THEN MemoryResult(s.w, SSH_ERR_INVALID_ARGUMENT, 0, <<>>, s.ret)
    ELSE IF SizeLt(dlen, digest.digest_len)
    THEN MemoryResult(s.w, SSH_ERR_INVALID_ARGUMENT, 0, <<>>, s.ret)
    ELSE MemoryAfterUpdate(s.ret, ssh_digest_update(s.w, s.ret, m, fail, ub), dlen, fail)

ssh_digest_memory(w, alg, m, dlen, fail, ub) ==
    MemoryAfterStart(ssh_digest_by_alg(alg), ssh_digest_start(w, alg, fail), m, dlen, fail, ub)

(* ------------------------------- inputs -------------------------------- *)

\* the byte values fed to update
Bytes == {0}

\* the byte strings of length at most n
RECURSIVE BytesUpTo(_)
BytesUpTo(n) ==
    IF n = 0 THEN {<<>>}
    ELSE LET shorter == BytesUpTo(n - 1)
         IN shorter \cup {Append(s, b) : s \in {t \in shorter : Len(t) = n - 1}, b \in Bytes}

Msgs == BytesUpTo(MaxData)

\* algorithm ids looked up in the registry
AlgInputs == -2..(SSH_DIGEST_MAX + 1)

\* algorithm ids given to start and to the one-shot digest: two supported
\* algorithms of different digest length and the unsupported one
StartAlgs == {SSH_DIGEST_RIPEMD160, SSH_DIGEST_SHA1, SSH_DIGEST_SHA256}

\* the spellings of s in upper and lower case letters
RECURSIVE CaseVariants(_)
CaseVariants(s) ==
    IF s = <<>> THEN {<<>>}
    ELSE {<<c>> \o r : c \in {Head(s), ToLower(Head(s))}, r \in CaseVariants(Tail(s))}

\* names looked up: every spelling of every name of the table, and names not in it
NameInputs ==
    UNION {CaseVariants(digests[i].name) : i \in 1..(Len(digests) - 1)}
        \cup {S_SHA3, S_SHA2567, <<>>}

\* output capacities: below and at or above the digest lengths of StartAlgs, and above UINT_MAX
DlenInputs == {19, 32, SIZE_MAX}

\* the byte values of the messages the caller threads digest
StreamBytes == {0, 1}

RECURSIVE SeqsUpTo(_, _)
SeqsUpTo(S, n) ==
    IF n = 0 THEN {<<>>}
    ELSE LET shorter == SeqsUpTo(S, n - 1)
         IN shorter \cup {Append(s, b) : s \in {x \in shorter : Len(x) = n - 1}, b \in S}

\* the chunks passed to update and the messages passed to the one-shot digest by the threads
StreamMsgs == SeqsUpTo(StreamBytes, MaxData)

\* the algorithms the threads digest with
StreamAlgs == {SSH_DIGEST_SHA1, SSH_DIGEST_SHA256}

\* the caller threads
Threads == {"A", "B"}

\* pc: where the thread is (idle, run: holds a started context, free: must free
\* its context, done); how: stream or oneshot; alg, ctx: its algorithm and its
\* context; fed: the bytes it has passed to update, in call order, or the message
\* it passed to the one-shot digest; md: the digest it obtained; ok: no call failed
Thread(pc, how, alg, ctx, fed, md, ok) ==
    [pc |-> pc, how |-> how, alg |-> alg, ctx |-> ctx, fed |-> fed, md |-> md, ok |-> ok]

IdleThread == Thread("idle", "none", 0, NULL, <<>>, <<>>, TRUE)

(* ------------------------------- state --------------------------------- *)

VARIABLES
    heap,     \* the context blocks: [CtxPtrs -> struct ssh_digest_ctx + allocated]
    cng,      \* the provider: open algorithm handles, open hash objects
    owned,    \* the context pointers the caller holds (returned by start, not yet freed)
    last,     \* the last operation: its arguments, return value, provider calls, output
    crashed,  \* the process has faulted
    ncopy,    \* number of copy_state calls made so far
    thr       \* the caller threads that each digest one message: [Threads -> thread record]

vars == <<heap, cng, owned, last, crashed, ncopy, thr>>

\* op: the operation; alg, name, ctx, to, dlen: its arguments (for the one-shot
\* digest ctx is the context it started); ret: its return value; calls: the
\* provider calls it made; written, md: what it stored in the output buffer
Op(op, alg, name, ctx, to, dlen, ret, w, written, md) ==
    [op |-> op, alg |-> alg, name |-> name, ctx |-> ctx, to |-> to, dlen |-> dlen,
     ret |-> ret, calls |-> w.calls, nullderef |-> w.nullderef, written |-> written, md |-> md]

Init ==
    /\ heap = [c \in CtxPtrs |-> FreeBlock]
    /\ cng = CngInit
    /\ owned = {}
    /\ last = Op("init", 0, <<>>, NULL, NULL, 0, 0, World(heap, cng), 0, <<>>)
    /\ crashed = FALSE
    /\ ncopy = 0
    /\ thr = [t \in Threads |-> IdleThread]

\* the accumulated bytes of the hash object of context c
DataOf(h, p, c) == p.hashes[h[c].hash_handle].data

\* a caller asks whether algorithm id alg exists (ssh_digest_by_alg through
\* ssh_digest_alg_name / ssh_digest_bytes); ret is NULL or the descriptor's place
LookupById(alg) ==
    /\ ~crashed
    /\ last' = Op("by_alg", alg, <<>>, NULL, NULL, 0,
                  IF ssh_digest_by_alg(alg) = NoDigest THEN NULL ELSE alg + 1,
                  World(heap, cng), 0, <<>>)
    /\ UNCHANGED <<heap, cng, owned, crashed, ncopy, thr>>

LookupByName(name) ==
    /\ ~crashed
    /\ last' = Op("alg_by_name", 0, name, NULL, NULL, 0, ssh_digest_alg_by_name(name),
                  World(heap, cng), 0, <<>>)
    /\ UNCHANGED <<heap, cng, owned, crashed, ncopy, thr>>

LookupBytes(alg) ==
    /\ ~crashed
    /\ last' = Op("bytes", alg, <<>>, NULL, NULL, 0, ssh_digest_bytes(alg),
                  World(heap, cng), 0, <<>>)
    /\ UNCHANGED <<heap, cng, owned, crashed, ncopy, thr>>

Start(alg, fail) ==
    /\ ~crashed
    /\ LET r == ssh_digest_start(World(heap, cng), alg, fail)
       IN /\ heap' = r.w.heap
          /\ cng' = r.w.cng
          /\ owned' = IF r.ret # NULL THEN owned \cup {r.ret} ELSE owned
          /\ last' = Op("start", alg, <<>>, NULL, NULL, 0, r.ret, r.w, 0, <<>>)
    /\ UNCHANGED <<crashed, ncopy, thr>>

Update(ctx, m, fail) ==
    /\ ~crashed
    /\ ctx \in owned
    /\ Len(DataOf(heap, cng, ctx)) + Len(m) <= MaxData
    /\ LET r == ssh_digest_update(World(heap, cng), ctx, m, fail, "crash")
       IN /\ heap' = r.w.heap
          /\ cng' = r.w.cng
          /\ last' = Op("update", 0, <<>>, ctx, NULL, 0, r.ret, r.w, 0, <<>>)
    /\ UNCHANGED <<owned, crashed, ncopy, thr>>

Final(ctx, dlen, fail) ==
    /\ ~crashed
    /\ ctx \in owned
    /\ LET r == ssh_digest_final(World(heap, cng), ctx, dlen, fail)
       IN /\ heap' = r.w.heap
          /\ cng' = r.w.cng
          /\ last' = Op("final", 0, <<>>, ctx, NULL, dlen, r.ret, r.w, r.written, r.md)
    /\ UNCHANGED <<owned, crashed, ncopy, thr>>

CopyState(from, to, fail) ==
    /\ ~crashed
    /\ ncopy < MaxCopies
    /\ from \in owned
    /\ to \in owned
    /\ LET r == ssh_digest_copy_state(World(heap, cng), from, to, fail)
       IN /\ heap' = r.w.heap
          /\ cng' = r.w.cng
          /\ last' = Op("copy_state", 0, <<>>, from, to, 0, r.ret, r.w, 0, <<>>)
    /\ ncopy' = ncopy + 1
    /\ UNCHANGED <<owned, crashed, thr>>

\* ctx is a context the caller holds, or NULL
Free(ctx) ==
    /\ ~crashed
    /\ ctx \in owned \cup {NULL}
    /\ LET w == ssh_digest_free(World(heap, cng), ctx)
       IN /\ heap' = w.heap
          /\ cng' = w.cng
          /\ last' = Op("free", 0, <<>>, ctx, NULL, 0, 0, w, 0, <<>>)
    /\ owned' = owned \ {ctx}
    /\ UNCHANGED <<crashed, ncopy, thr>>

Memory(alg, m, dlen, fail, ub) ==
    /\ ~crashed
    /\ LET r == ssh_digest_memory(World(heap, cng), alg, m, dlen, fail, ub)
       IN /\ heap' = r.w.heap
          /\ cng' = r.w.cng
          /\ crashed' = r.w.crashed
          /\ last' = Op("memory", alg, <<>>, r.ctx, NULL, dlen, r.ret, r.w,
                        r.out.written, r.out.md)
    /\ UNCHANGED <<owned, ncopy, thr>>

Lifecycle ==
    \/ \E alg \in StartAlgs, fail \in {"none", "malloc", "open", "create"} : Start(alg, fail)
    \/ \E ctx \in CtxPtrs, m \in Msgs, fail \in {"none", "update"} : Update(ctx, m, fail)
    \/ \E ctx \in CtxPtrs, dlen \in DlenInputs, fail \in {"none", "final"} : Final(ctx, dlen, fail)
    \/ \E ctx \in CtxPtrs \cup {NULL} : Free(ctx)

Registry ==
    \/ \E alg \in AlgInputs : LookupById(alg)
    \/ \E name \in NameInputs : LookupByName(name)

CopyStates ==
    \E from \in CtxPtrs, to \in CtxPtrs, fail \in {"none", "duplicate"} : CopyState(from, to, fail)

\* ub, the outcome of the faulting read, is an input only where start returns NULL
Oneshots ==
    \E alg \in StartAlgs, m \in Msgs, dlen \in DlenInputs,
       fail \in {"none", "malloc", "open", "create", "update", "final"},
       ub \in {"crash", "garbage"} :
        /\ ub = "garbage" => ssh_digest_start(World(heap, cng), alg, fail).ret = NULL
        /\ Memory(alg, m, dlen, fail, ub)

\* the streaming operations on the contexts the caller holds
Next ==
    \/ Lifecycle
    \/ CopyStates

\* the one-shot digest, among contexts that are started and freed
NextOneshot ==
    \/ \E alg \in StartAlgs, fail \in {"none", "malloc", "open", "create"} : Start(alg, fail)
    \/ \E ctx \in CtxPtrs \cup {NULL} : Free(ctx)
    \/ Oneshots

Spec == Init /\ [][Next]_vars

SpecOneshot == Init /\ [][NextOneshot]_vars

\* the registry lookups only
SpecRegistry == Init /\ [][Registry]_vars

\* start, update, final and free only
SpecLifecycle == Init /\ [][Lifecycle]_vars

\* every operation that can fail on validation and on a provider failure
NextErrors ==
    \/ \E alg \in StartAlgs, fail \in {"none", "malloc", "open", "create"} : Start(alg, fail)
    \/ \E alg \in StartAlgs, dlen \in DlenInputs,
          fail \in {"none", "malloc", "open", "create", "update", "final"},
          ub \in {"crash", "garbage"} :
            /\ ub = "garbage" => ssh_digest_start(World(heap, cng), alg, fail).ret = NULL
            /\ Memory(alg, <<>>, dlen, fail, ub)
    \/ \E ctx \in CtxPtrs, dlen \in DlenInputs, fail \in {"none", "final"} : Final(ctx, dlen, fail)
    \/ CopyStates

SpecErrors == Init /\ [][NextErrors]_vars

\* the lookups by id and the start that depends on them, for every id
NextResolve ==
    \/ \E alg \in AlgInputs : LookupById(alg)
    \/ \E alg \in AlgInputs : LookupBytes(alg)
    \/ \E alg \in AlgInputs, fail \in {"none", "malloc", "open", "create"} : Start(alg, fail)
    \/ \E ctx \in CtxPtrs \cup {NULL} : Free(ctx)

SpecResolve == Init /\ [][NextResolve]_vars

(* ------------------------------- threads ------------------------------- *)

\* thread t starts its context
ThreadStart(t, alg, fail) ==
    /\ ~crashed
    /\ thr[t].pc = "idle"
    /\ LET r == ssh_digest_start(World(heap, cng), alg, fail)
       IN /\ heap' = r.w.heap
          /\ cng' = r.w.cng
          /\ owned' = IF r.ret # NULL THEN owned \cup {r.ret} ELSE owned
          /\ thr' = [thr EXCEPT ![t] =
                        IF r.ret # NULL THEN Thread("run", "stream", alg, r.ret, <<>>, <<>>, TRUE)
                        ELSE Thread("done", "stream", alg, NULL, <<>>, <<>>, FALSE)]
    /\ UNCHANGED <<last, crashed, ncopy>>

\* thread t passes the next chunk m of its message to update
ThreadUpdate(t, m, fail) ==
    /\ ~crashed
    /\ thr[t].pc = "run"
    /\ Len(thr[t].fed) + Len(m) <= MaxData
    /\ LET r == ssh_digest_update(World(heap, cng), thr[t].ctx, m, fail, "crash")
       IN /\ heap' = r.w.heap
          /\ cng' = r.w.cng
          /\ thr' = [thr EXCEPT ![t] =
                        IF r.ret = 0 THEN [@ EXCEPT !.fed = @ \o m]
                        ELSE [@ EXCEPT !.pc = "free", !.ok = FALSE]]
    /\ UNCHANGED <<owned, last, crashed, ncopy>>

\* thread t finalizes into a buffer of the digest's length
ThreadFinal(t, fail) ==
    /\ ~crashed
    /\ thr[t].pc = "run"
    /\ LET r == ssh_digest_final(World(heap, cng), thr[t].ctx, ssh_digest_bytes(thr[t].alg), fail)
       IN /\ heap' = r.w.heap
          /\ cng' = r.w.cng
          /\ thr' = [thr EXCEPT ![t] = [@ EXCEPT !.pc = "free", !.md = r.md, !.ok = (r.ret = 0)]]
    /\ UNCHANGED <<owned, last, crashed, ncopy>>

\* thread t frees its context
ThreadFree(t) ==
    /\ ~crashed
    /\ thr[t].pc = "free"
    /\ LET w == ssh_digest_free(World(heap, cng), thr[t].ctx)
       IN /\ heap' = w.heap
          /\ cng' = w.cng
    /\ owned' = owned \ {thr[t].ctx}
    /\ thr' = [thr EXCEPT ![t] = [@ EXCEPT !.pc = "done", !.ctx = NULL]]
    /\ UNCHANGED <<last, crashed, ncopy>>

\* thread t digests its whole message m with the one-shot digest
ThreadOneshot(t, alg, m, fail, ub) ==
    /\ ~crashed
    /\ thr[t].pc = "idle"
    /\ ub = "garbage" => ssh_digest_start(World(heap, cng), alg, fail).ret = NULL
    /\ LET r == ssh_digest_memory(World(heap, cng), alg, m, ssh_digest_bytes(alg), fail, ub)
       IN /\ heap' = r.w.heap
          /\ cng' = r.w.cng
          /\ crashed' = r.w.crashed
          /\ thr' = [thr EXCEPT ![t] = Thread("done", "oneshot", alg, NULL, m, r.out.md, r.ret = 0)]
    /\ UNCHANGED <<owned, last, ncopy>>

\* the threads stream their messages, each on its own context, in any interleaving
NextThreads ==
    \/ \E t \in Threads, alg \in StreamAlgs, fail \in {"none", "malloc", "open", "create"} :
            ThreadStart(t, alg, fail)
    \/ \E t \in Threads, m \in StreamMsgs, fail \in {"none", "update"} : ThreadUpdate(t, m, fail)
    \/ \E t \in Threads, fail \in {"none", "final"} : ThreadFinal(t, fail)
    \/ \E t \in Threads : ThreadFree(t)

\* each thread either streams its message or passes it whole to the one-shot digest
NextStream ==
    \/ NextThreads
    \/ \E t \in Threads, alg \in StreamAlgs, m \in StreamMsgs,
          fail \in {"none", "malloc", "open", "create", "update", "final"},
          ub \in {"crash", "garbage"} : ThreadOneshot(t, alg, m, fail, ub)

SpecThreads == Init /\ [][NextThreads]_vars

SpecStream == Init /\ [][NextStream]_vars

(* ------------------------------- claims -------------------------------- *)

OpenAlgs(p) == DOMAIN p.algs

OpenHashes(p) == DOMAIN p.hashes

\* the operation has made provider call f and it failed
FailedCall(op, f) == \E i \in 1..Len(op.calls) : op.calls[i].f = f /\ ~op.calls[i].ok

\* C1: with start, update, final and free only, free(ctx) releases both handles
\* of ctx, free(NULL) changes nothing, and once the caller holds no context no
\* provider algorithm handle and no provider hash object is open.
C1_FreeReleasesBoth ==
    [][ /\ (last'.op = "free" /\ last'.ctx = NULL) => (heap' = heap /\ cng' = cng)
        /\ (last'.op = "free" /\ last'.ctx # NULL) =>
              /\ heap[last'.ctx].cng_alg_handle \notin OpenAlgs(cng')
              /\ heap[last'.ctx].hash_handle \notin OpenHashes(cng')
              /\ ~heap'[last'.ctx].allocated
        /\ owned' = {} => (OpenAlgs(cng') = {} /\ OpenHashes(cng') = {}) ]_vars

\* the last context the caller held has just been freed
C1_Witness == last.op = "free" /\ last.ctx # NULL /\ owned = {}

\* C2: a successful copy_state(from, to) on two contexts releases the hash
\* object `to` held before, and once the caller holds no context no provider
\* hash object is open.
C2_CopyReleasesOldHash ==
    [][ /\ (last'.op = "copy_state" /\ last'.ret = 0 /\ last'.ctx # last'.to) =>
              heap[last'.to].hash_handle \notin OpenHashes(cng')
        /\ owned' = {} => OpenHashes(cng') = {} ]_vars

\* C3: the one-shot digest leaves the open provider handles as they were.
C3_OneshotKeepsHandles ==
    [][ last'.op = "memory" =>
            (OpenAlgs(cng') = OpenAlgs(cng) /\ OpenHashes(cng') = OpenHashes(cng)) ]_vars

\* C4: the one-shot digest of a supported algorithm with an output capacity
\* below the digest length fails InvalidArgument without any provider call.
C4_OneshotValidatesFirst ==
    (/\ last.op = "memory"
     /\ ssh_digest_by_alg(last.alg) # NoDigest
     /\ SizeLt(last.dlen, ssh_digest_bytes(last.alg)))
        => (last.ret = SSH_ERR_INVALID_ARGUMENT /\ last.calls = <<>>)

\* C5: when the provider fails to open the algorithm or to create the hash
\* object inside the one-shot digest (supported algorithm, adequate capacity),
\* the call returns an error and nothing is read through a null context.
C5_OneshotStartFailure ==
    (/\ last.op = "memory"
     /\ ssh_digest_by_alg(last.alg) # NoDigest
     /\ ~GtUintMax(last.dlen)
     /\ ~SizeLt(last.dlen, ssh_digest_bytes(last.alg))
     /\ (FailedCall(last, "BCryptOpenAlgorithmProvider") \/ FailedCall(last, "BCryptCreateHash")))
        => (/\ ~crashed
            /\ ~last.nullderef
            /\ last.ret \notin {0, NoReturn, SSH_ERR_INVALID_ARGUMENT})

\* C6: a start that fails leaves the provider (its open algorithm handles and
\* hash objects) and the context blocks as they were.
C6_FailedStartReleases ==
    [][ (last'.op = "start" /\ last'.ret = NULL) => (cng' = cng /\ heap' = heap) ]_vars

\* start has failed at creating the hash object, after opening the algorithm
C6_Witness ==
    /\ last.op = "start"
    /\ last.ret = NULL
    /\ last.calls = <<Call("BCryptOpenAlgorithmProvider", TRUE), Call("BCryptCreateHash", FALSE)>>

\* C7: the lookup of RIPEMD160 fails by id and by name.
C7_Ripemd160NotFound ==
    /\ (last.op = "by_alg" /\ last.alg = SSH_DIGEST_RIPEMD160) => last.ret = NULL
    /\ (last.op = "alg_by_name" /\ last.name = S_RIPEMD160) => last.ret = -1

\* C8: final with an output capacity below the digest length of the context's
\* algorithm fails InvalidArgument, writes nothing, makes no provider call and
\* leaves the provider and the context as they were.
C8_FinalNoTruncation ==
    [][ (/\ last'.op = "final"
         /\ SizeLt(last'.dlen, ssh_digest_bytes(heap[last'.ctx].alg)))
            => (/\ last'.ret = SSH_ERR_INVALID_ARGUMENT
                /\ last'.written = 0
                /\ last'.calls = <<>>
                /\ cng' = cng
                /\ heap' = heap) ]_vars

\* final was refused for its capacity on a context that has bytes accumulated
C8_Witness ==
    /\ last.op = "final"
    /\ last.ret = SSH_ERR_INVALID_ARGUMENT
    /\ SizeLt(last.dlen, ssh_digest_bytes(heap[last.ctx].alg))
    /\ DataOf(heap, cng, last.ctx) # <<>>

\* C9: copy_state between contexts of different algorithms fails
\* InvalidArgument, makes no provider call and changes neither context.
C9_CopyMismatch ==
    [][ (last'.op = "copy_state" /\ heap[last'.ctx].alg # heap[last'.to].alg)
            => (/\ last'.ret = SSH_ERR_INVALID_ARGUMENT
                /\ last'.calls = <<>>
                /\ heap' = heap
                /\ cng' = cng) ]_vars

\* copy_state was refused between two contexts, the source with bytes accumulated
C9_Witness ==
    /\ last.op = "copy_state"
    /\ last.ret = SSH_ERR_INVALID_ARGUMENT
    /\ heap[last.ctx].alg # heap[last.to].alg
    /\ DataOf(heap, cng, last.ctx) # <<>>

\* C10: after a successful copy_state(from, to), to holds the bytes from had
\* accumulated, in a hash object of its own; an update or final on one context
\* changes the accumulated bytes of no other context the caller holds, and a
\* digest is that of the bytes accumulated in the finalized context.
C10_CopyIndependent ==
    [][ /\ (last'.op = "copy_state" /\ last'.ret = 0) =>
              /\ DataOf(heap', cng', last'.to) = DataOf(heap, cng, last'.ctx)
              /\ DataOf(heap', cng', last'.ctx) = DataOf(heap, cng, last'.ctx)
              /\ last'.ctx # last'.to =>
                    heap'[last'.to].hash_handle # heap'[last'.ctx].hash_handle
        /\ last'.op \in {"update", "final"} =>
              \A c \in owned \ {last'.ctx} : DataOf(heap', cng', c) = DataOf(heap, cng, c)
        /\ (last'.op = "final" /\ last'.ret = 0) =>
              last'.md = ProviderDigest(ssh_digest_by_alg(heap[last'.ctx].alg).cng_alg_name,
                                        DataOf(heap, cng, last'.ctx)) ]_vars

\* a state with bytes accumulated has just been copied to another context
C10_Witness ==
    /\ last.op = "copy_state"
    /\ last.ret = 0
    /\ last.ctx # last.to
    /\ DataOf(heap, cng, last.to) # <<>>
    /\ DataOf(heap, cng, last.to) = DataOf(heap, cng, last.ctx)

\* the provider's digest of the bytes fed, under the algorithm of thread t
StreamDigest(t) == ProviderDigest(ssh_digest_by_alg(thr[t].alg).cng_alg_name, thr[t].fed)

\* thread t has streamed its message and finalized without a failure
Streamed(t) == thr[t].how = "stream" /\ thr[t].pc = "free" /\ thr[t].ok

\* thread t has digested its message with the one-shot digest without a failure
Oneshot(t) == thr[t].how = "oneshot" /\ thr[t].pc = "done" /\ thr[t].ok

\* C11: for every supported algorithm and message, whatever the chunks passed
\* to update, the hash object holds the concatenation of the bytes passed in
\* call order and the digest finalized is the hash of that concatenation; the
\* one-shot digest of a message, with a buffer of the digest's length, yields
\* the same bytes as streaming the message in chunks.
C11_ChunkingInvariance ==
    /\ \A t \in Threads :
          /\ thr[t].pc = "run" => DataOf(heap, cng, thr[t].ctx) = thr[t].fed
          /\ Streamed(t) \/ Oneshot(t) => thr[t].md = StreamDigest(t)
    /\ \A t \in Threads, u \in Threads :
          (Streamed(t) /\ Oneshot(u) /\ thr[t].alg = thr[u].alg /\ thr[t].fed = thr[u].fed)
              => thr[t].md = thr[u].md

\* one thread has streamed a message of two different bytes and another has
\* passed the same message to the one-shot digest
C11_Witness ==
    \E t \in Threads, u \in Threads :
        /\ Streamed(t)
        /\ Oneshot(u)
        /\ thr[t].alg = thr[u].alg
        /\ thr[t].fed = <<0, 1>>
        /\ thr[u].fed = <<0, 1>>
        /\ thr[t].md = thr[u].md

\* the operation op with arguments (alg, ctx, to, dlen) is refused by a check of
\* its arguments: unknown or unsupported algorithm, output buffer too small,
\* mismatched algorithms
ValidationFailed(h, op, alg, ctx, to, dlen) ==
    CASE op = "start" -> ssh_digest_by_alg(alg) = NoDigest
      [] op = "final" -> GtUintMax(dlen) \/ SizeLt(dlen, ssh_digest_by_alg(h[ctx].alg).digest_len)
      [] op = "copy_state" -> h[ctx].alg # h[to].alg
      [] op = "memory" -> \/ ssh_digest_by_alg(alg) = NoDigest
                          \/ GtUintMax(dlen)
                          \/ SizeLt(dlen, ssh_digest_by_alg(alg).digest_len)
      [] OTHER -> FALSE

\* what the operation op returns to the caller, in the state (h, p), over the
\* calls of op with arguments that pass its checks and in which a provider call fails
ProviderFailureReturns(h, p, op) ==
    CASE op = "start" ->
            {ssh_digest_start(World(h, p), alg, fail).ret :
                alg \in {a \in StartAlgs : ~ValidationFailed(h, op, a, NULL, NULL, 0)},
                fail \in {"open", "create"}}
      [] op = "final" ->
            UNION {{ssh_digest_final(World(h, p), ctx, dlen, "final").ret :
                       dlen \in {d \in DlenInputs : ~ValidationFailed(h, op, 0, ctx, NULL, d)}} :
                   ctx \in owned}
      [] op = "copy_state" ->
            {ssh_digest_copy_state(World(h, p), ctx, ctx, "duplicate").ret : ctx \in owned}
      [] op = "memory" ->
            UNION {{ssh_digest_memory(World(h, p), alg, <<>>, dlen, fail, ub).ret :
                       dlen \in {d \in DlenInputs : ~ValidationFailed(h, op, alg, NULL, NULL, d)},
                       fail \in {"open", "create", "update", "final"},
                       ub \in {"crash", "garbage"}} :
                   alg \in StartAlgs}
      [] OTHER -> {}

\* C12: what start, final, copy_state and the one-shot digest return when they
\* refuse their arguments (unknown or unsupported algorithm, undersized output
\* buffer, mismatched algorithms) is never what the same operation returns
\* when a provider call fails.
C12_FailuresDistinct ==
    [][ ValidationFailed(heap, last'.op, last'.alg, last'.ctx, last'.to, last'.dlen)
            => last'.ret \notin ProviderFailureReturns(heap, cng, last'.op) ]_vars

\* context c owns an open algorithm handle and an open hash object, shared with
\* no other context the caller holds
OwnsOneOfEach(h, p, c) ==
    /\ h[c].allocated
    /\ h[c].cng_alg_handle \in OpenAlgs(p)
    /\ h[c].hash_handle \in OpenHashes(p)
    /\ \A c2 \in owned \ {c} :
          /\ h[c2].cng_alg_handle # h[c].cng_alg_handle
          /\ h[c2].hash_handle # h[c].hash_handle

\* ssh_digest_free of context c releases its algorithm handle, its hash object and its block
FreeReleases(h, p, c) ==
    LET w == ssh_digest_free(World(h, p), c)
    IN /\ h[c].cng_alg_handle \notin OpenAlgs(w.cng)
       /\ h[c].hash_handle \notin OpenHashes(w.cng)
       /\ ~w.heap[c].allocated

\* C13: after a failed update, final or copy_state on live contexts, every
\* context involved still owns exactly one open algorithm handle and one open
\* hash object, with the bytes it had accumulated, and a free of it releases both.
C13_NoPartialSuccess ==
    [][ (last'.op \in {"update", "final", "copy_state"} /\ last'.ret # 0) =>
            \A c \in {last'.ctx, last'.to} \ {NULL} :
                /\ OwnsOneOfEach(heap', cng', c)
                /\ heap'[c] = heap[c]
                /\ DataOf(heap', cng', c) = DataOf(heap, cng, c)
                /\ FreeReleases(heap', cng', c) ]_vars

\* the provider has just failed to duplicate a state with bytes accumulated
\* from one context to another
C13_Witness ==
    /\ last.op = "copy_state"
    /\ last.ret = SSH_ERR_LIBCRYPTO_ERROR
    /\ last.ctx # last.to
    /\ DataOf(heap, cng, last.ctx) # <<>>
    /\ OwnsOneOfEach(heap, cng, last.to)

\* the threads that hold a context
LiveThreads == {t \in Threads : thr[t].pc \in {"run", "free"}}

\* one thread alone, from the initial state: start, update with the bytes m,
\* final, free; md is its digest and w the heap and the provider it leaves
SequentialRun(alg, m) ==
    LET s == ssh_digest_start(World([c \in CtxPtrs |-> FreeBlock], CngInit), alg, "none")
        u == ssh_digest_update(s.w, s.ret, m, "none", "crash")
        f == ssh_digest_final(u.w, s.ret, ssh_digest_bytes(alg), "none")
    IN [md |-> f.md, w |-> ssh_digest_free(f.w, s.ret)]

\* C14: two threads, each driving a context of its own with start, update,
\* final and free, in any interleaving: the contexts are distinct, each hash
\* object holds the bytes of its own thread only, each digest is the one the
\* thread gets when it runs alone, and the open handles and allocated blocks
\* are those of the threads holding a context, none once both are done, as
\* when the threads run one after the other.
C14_ThreadsIndependent ==
    /\ \A t \in LiveThreads, u \in LiveThreads :
          t # u => /\ thr[t].ctx # thr[u].ctx
                   /\ heap[thr[t].ctx].cng_alg_handle # heap[thr[u].ctx].cng_alg_handle
                   /\ heap[thr[t].ctx].hash_handle # heap[thr[u].ctx].hash_handle
    /\ \A t \in LiveThreads :
          /\ heap[thr[t].ctx].allocated
          /\ heap[thr[t].ctx].cng_alg_handle \in OpenAlgs(cng)
          /\ heap[thr[t].ctx].hash_handle \in OpenHashes(cng)
          /\ thr[t].pc = "run" => DataOf(heap, cng, thr[t].ctx) = thr[t].fed
    /\ \A t \in Threads : Streamed(t) => thr[t].md = SequentialRun(thr[t].alg, thr[t].fed).md
    /\ Cardinality(OpenAlgs(cng)) = Cardinality(LiveThreads)
    /\ Cardinality(OpenHashes(cng)) = Cardinality(LiveThreads)
    /\ Cardinality({c \in CtxPtrs : heap[c].allocated}) = Cardinality(LiveThreads)
    /\ \A t \in Threads :
          LiveThreads = {} /\ thr[t].pc = "done" /\ thr[t].ok =>
              /\ cng = SequentialRun(thr[t].alg, thr[t].fed).w.cng
              /\ heap = SequentialRun(thr[t].alg, thr[t].fed).w.heap

\* one thread has finalized its two bytes while the other, between its own
\* updates, holds one byte of a different message
C14_Witness ==
    \E t \in Threads, u \in Threads :
        /\ Streamed(t)
        /\ thr[t].fed = <<0, 1>>
        /\ thr[t].md = SequentialRun(thr[t].alg, <<0, 1>>).md
        /\ thr[u].pc = "run"
        /\ thr[u].fed = <<1>>
        /\ thr[u].alg # thr[t].alg

\* C15: a final that succeeds has written exactly the digest length of the
\* context's algorithm, which is at most the capacity it was given; a final
\* that fails has written nothing; so final never writes more than the
\* capacity and, on success, never fewer bytes than the digest length.
C15_FinalWritesDigestLen ==
    [][ last'.op = "final" =>
            /\ last'.ret = 0 =>
                  /\ last'.written = ssh_digest_bytes(heap[last'.ctx].alg)
                  /\ last'.written > 0
                  /\ ~GtUintMax(last'.dlen)
                  /\ last'.written <= last'.dlen
            /\ last'.ret # 0 => last'.written = 0 ]_vars

\* final has succeeded on a SHA1 context with a buffer larger than the digest
C15_Witness ==
    /\ last.op = "final"
    /\ last.ret = 0
    /\ last.dlen = 32
    /\ last.written = 20
    /\ heap[last.ctx].alg = SSH_DIGEST_SHA1

\* id is in range, the table slot at id carries id, and the slot names a provider algorithm
Resolvable(id) ==
    /\ id >= 0
    /\ id < SSH_DIGEST_MAX
    /\ digests[id + 1].id = id
    /\ digests[id + 1].cng_alg_name # NULLSTR

\* the digest lengths of the algorithms that resolve
DigestLengths ==
    [a \in {SSH_DIGEST_MD5, SSH_DIGEST_SHA1, SSH_DIGEST_SHA256, SSH_DIGEST_SHA384, SSH_DIGEST_SHA512} |->
        CASE a = SSH_DIGEST_MD5 -> 16
          [] a = SSH_DIGEST_SHA1 -> 20
          [] a = SSH_DIGEST_SHA256 -> 32
          [] a = SSH_DIGEST_SHA384 -> 48
          [] a = SSH_DIGEST_SHA512 -> 64]

\* C16: the lookup by id succeeds, with the table slot at id, exactly when id is
\* in range, the slot carries id and the slot names a provider algorithm, that
\* is for MD5, SHA1, SHA256, SHA384 and SHA512; the digest length of an id is 0
\* when the lookup fails and 16, 20, 32, 48, 64 otherwise; start of an id whose
\* lookup fails returns no context, makes no provider call and acquires nothing.
C16_ResolveById ==
    [][ /\ last'.op = "by_alg" =>
              /\ (last'.ret # NULL) <=> Resolvable(last'.alg)
              /\ Resolvable(last'.alg) <=> last'.alg \in DOMAIN DigestLengths
              /\ last'.ret # NULL => last'.ret = last'.alg + 1
        /\ last'.op = "bytes" =>
              last'.ret = IF Resolvable(last'.alg) THEN DigestLengths[last'.alg] ELSE 0
        /\ (last'.op = "start" /\ ~Resolvable(last'.alg)) =>
              /\ last'.ret = NULL
              /\ last'.calls = <<>>
              /\ cng' = cng
              /\ heap' = heap
              /\ owned' = owned ]_vars

\* start has refused RIPEMD160, which the table declares without a provider
\* algorithm, with no provider call, while the caller holds a started context
C16_Witness ==
    /\ last.op = "start"
    /\ last.alg = SSH_DIGEST_RIPEMD160
    /\ last.ret = NULL
    /\ last.calls = <<>>
    /\ owned # {}
    /\ OpenAlgs(cng) # {}

\* the table entries before the sentinel of which name is a case variant
EntriesNamed(name) == {i \in 1..(Len(digests) - 1) : name \in CaseVariants(digests[i].name)}

\* C17: the lookup by name scans the table in order and stops at the sentinel:
\* for every case variant of the name of a table entry it returns the id of the
\* first such entry, the same for all variants, and for a name that is a
\* variant of no entry's name it returns -1.
C17_ResolveByName ==
    last.op = "alg_by_name" =>
        /\ EntriesNamed(last.name) = {} => last.ret = -1
        /\ \A i \in EntriesNamed(last.name) :
              (\A j \in EntriesNamed(last.name) : i <= j) => last.ret = digests[i].id
        /\ last.ret # -1 => \E i \in EntriesNamed(last.name) : last.ret = digests[i].id

\* the mixed-case spelling "Sha256" has resolved to SHA256
C17_Witness ==
    /\ last.op = "alg_by_name"
    /\ last.name = S_Sha256
    /\ last.name # S_SHA256
    /\ last.ret = SSH_DIGEST_SHA256

\* every open hash object of provider p was created or duplicated under an
\* algorithm handle that has not been closed since
ParentsOpen(p) == \A h \in OpenHashes(p) : p.hashes[h].parent_open

\* the provider inside ssh_digest_free(ctx), between its two provider calls
InsideFree(h, p, ctx) == BCryptCloseAlgorithmProvider(p, h[ctx].cng_alg_handle)

\* C18: in every state reached by start, update, final, copy_state and free,
\* and between the two provider calls inside free, every open hash object
\* belongs to an algorithm handle that is still open: no algorithm handle is
\* closed while a hash object created or duplicated under it is alive.
C18_HashParentsOpen ==
    [][ /\ ParentsOpen(cng')
        /\ (last'.op = "free" /\ last'.ctx # NULL) => ParentsOpen(InsideFree(heap, cng, last'.ctx)) ]_vars

\* C19: the algorithm id of every context the caller holds is the id that was
\* passed to the start that created it, no operation changes it while the
\* context is held, and it resolves through the lookup by id, so that the
\* descriptor final reads for a held context is never NULL.
C19_AlgImmutable ==
    [][ /\ \A c \in owned' :
              /\ heap'[c].allocated
              /\ ssh_digest_by_alg(heap'[c].alg) # NoDigest
        /\ (last'.op = "start" /\ last'.ret # NULL) =>
              /\ last'.ret \notin owned
              /\ heap'[last'.ret].alg = last'.alg
        /\ \A c \in owned \cap owned' : heap'[c].alg = heap[c].alg
        /\ last'.op = "final" => ssh_digest_by_alg(heap[last'.ctx].alg) # NoDigest ]_vars

\* final has succeeded on a context while the caller holds contexts of two
\* algorithms, after a copy_state
C19_Witness ==
    /\ last.op = "final"
    /\ last.ret = 0
    /\ ncopy > 0
    /\ \E c \in owned : heap[c].alg # heap[last.ctx].alg
    /\ heap[last.ctx].alg = SSH_DIGEST_SHA256

====
